---- MODULE Spec2Model ----
(***************************************************************************)
(* BlueCrypt core (src/bluecrypt_core.py) and the hide / extract handlers  *)
(* of src/app.py.                                                          *)
(*                                                                         *)
(* Bytes and channel values are integers 0..255, byte strings are          *)
(* sequences of bytes, Python str values are sequences of code points.     *)
(* An image is a record [width, height, rows]; rows is the (height, width, *)
(* 3) array numpy builds from it, a sequence of rows of <<r, g, b>>.       *)
(* Images live in a store (heap) and are passed by reference, as the       *)
(* PIL objects are.                                                        *)
(***************************************************************************)
EXTENDS Integers, Sequences, FiniteSets, TLC

VARIABLES
    heap,        \* the image objects alive: heap[1] is the caller's cover image
    blob,        \* argument of the last embed_encrypted_data call
    embedRes,    \* its outcome: [ok, err, val], val the reference of the stego image
    extractArg,  \* argument (a reference) of the last extract_encrypted_data call
    extractRes,  \* its outcome: [ok, err, val], val the bytes returned
    filename,    \* arguments of the last package_secret_file call
    data,
    packRes,     \* its outcome: [ok, err, val], val the envelope
    unpackArg,   \* argument of the last unpackage_secret_file call
    unpackRes,   \* its outcome: [ok, err, val], val the SecretFile [filename, data]
    plaintext,   \* arguments of the last encrypt_payload call
    key,
    nonce,       \* the nonce get_random_bytes gave it
    encRes,      \* its outcome: [ok, err, val], val the encrypted blob
    decArg,      \* arguments of the last decrypt_payload call
    decKey,
    decRes,      \* its outcome: [ok, err, val], val the plaintext
    psnrArgs,    \* arguments (two references) of the last calculate_psnr call
    psnrRes,     \* its outcome: [ok, err, val], val the PSNR
    psnrPrevArgs,\* the calculate_psnr call before it
    psnrPrevRes,
    password,    \* the password typed in the hide tab
    hideRes,     \* outcome of the hide handler: val the reference of the stego image
    extractPassword, \* the password typed in the extract tab
    revealRes,   \* outcome of the extract handler: val the SecretFile
    embedArg2,   \* arguments of a second embed_encrypted_data call, made on an
    blob2,       \* image alive after the first (a reference, and the payload)
    embedRes2,   \* its outcome: [ok, err, val], val the reference of its stego image
    extractArg2, \* argument (a reference) of a second extract_encrypted_data call
    extractRes2  \* its outcome: [ok, err, val], val the bytes returned

stegoVars == <<heap, blob, embedRes, extractArg, extractRes>>
envVars == <<filename, data, packRes, unpackArg, unpackRes>>
cipherVars == <<plaintext, key, nonce, encRes, decArg, decKey, decRes>>
psnrVars == <<psnrArgs, psnrRes, psnrPrevArgs, psnrPrevRes>>
appVars == <<password, hideRes, extractPassword, revealRes>>
againVars == <<embedArg2, blob2, embedRes2, extractArg2, extractRes2>>
vars == <<stegoVars, envVars, cipherVars, psnrVars, appVars, againVars>>

----------------------------------------------------------------------------
(* Module constants, bluecrypt_core.py:16-19 *)

MAGIC == <<66, 67, 80, 49>>      \* b"BCP1"
NONCE_LEN == 12
TAG_LEN == 16
HEADER_LEN == 4

----------------------------------------------------------------------------
(* Bounds of the model *)

MaxPixels == 6                   \* cover grids of Spec have width*height <= MaxPixels
MaxRawPixels == 6                \* grids of SpecExtract have width*height <= MaxRawPixels
MaxNameLen == 3                  \* file names of SpecEnvelope have <= MaxNameLen characters
MaxDataLen == 2                  \* secret files of SpecEnvelope have <= MaxDataLen bytes
MaxPlainLen == 2                 \* plaintexts of SpecCipher have <= MaxPlainLen bytes
MaxPsnrPixels == 3               \* images of SpecPsnr have width*height <= MaxPsnrPixels
MaxSide == 10                    \* covers of SpecApp have width, height in 7..MaxSide
MaxRePixels == 7                 \* covers of SpecReembed have width*height <= MaxRePixels
MaxTwinPixels == 5               \* grids of SpecTwin have width*height <= MaxTwinPixels
MaxTailLen == 5                  \* envelopes of SpecUnpack: a head, then <= MaxTailLen bytes

----------------------------------------------------------------------------
(* Outcomes of a call: a value, or the BlueCryptError raised (named as the *)
(* specification names the conditions).                                    *)

NotCalled == "NotCalled"
Ok(v) == [ok |-> TRUE, err |-> "none", val |-> v]
Fail(e, v) == [ok |-> FALSE, err |-> e, val |-> v]

NoRef == 0
NoBytes == <<>>
NoSecret == [filename |-> <<>>, data |-> <<>>]
NoPsnr == [inf |-> FALSE, sse |-> 0, n |-> 0]

----------------------------------------------------------------------------
(* 8-bit integer arithmetic of numpy / Python *)

Min(a, b) == IF a <= b THEN a ELSE b
Max(a, b) == IF a >= b THEN a ELSE b

RECURSIVE Pow2(_)
Pow2(n) == IF n = 0 THEN 1 ELSE 2 * Pow2(n - 1)

RECURSIVE BitAnd(_, _)
BitAnd(a, b) ==
    IF a = 0 \/ b = 0 THEN 0
    ELSE (a % 2) * (b % 2) + 2 * BitAnd(a \div 2, b \div 2)

RECURSIVE BitOr(_, _)
BitOr(a, b) ==
    IF a = 0 THEN b
    ELSE IF b = 0 THEN a
    ELSE Max(a % 2, b % 2) + 2 * BitOr(a \div 2, b \div 2)

RECURSIVE BitXor(_, _)
BitXor(a, b) ==
    IF a = 0 THEN b
    ELSE IF b = 0 THEN a
    ELSE ((a + b) % 2) + 2 * BitXor(a \div 2, b \div 2)

Shr(a, n) == a \div Pow2(n)
Shl(a, n) == a * Pow2(n)
AsUint8(a) == a % 256

\* Python slice s[lo:hi] with 0 <= lo, 0 <= hi (bounds clipped to the length)
Slice(s, lo, hi) == SubSeq(s, lo + 1, Min(hi, Len(s)))

\* int.from_bytes(b, "big")
RECURSIVE FromBytesBig(_)
FromBytesBig(b) ==
    IF b = <<>> THEN 0
    ELSE 256 * FromBytesBig(SubSeq(b, 1, Len(b) - 1)) + b[Len(b)]

\* A Python int too wide for one machine word of the checker, as two limbs:
\* the value is hi * 65536 + lo, with 0 <= lo < 65536.  int.from_bytes(b, "big")
\* for any b, the last two bytes in lo
BigFromBytes(b) ==
    [hi |-> FromBytesBig(SubSeq(b, 1, Len(b) - 2)),
     lo |-> FromBytesBig(SubSeq(b, Max(Len(b) - 1, 1), Len(b)))]
\* x <= 0, and x > n for 0 <= n < 65536
BigIsZero(x) == x.hi = 0 /\ x.lo = 0
BigGreater(x, n) == x.hi > 0 \/ x.lo > n
\* the value of x when it is less than 65536
BigSmall(x) == x.lo

\* n.to_bytes(k, "big"), defined for 0 <= n < 256^k
ToBytesBig(n, k) == [i \in 1..k |-> (n \div Pow2(8 * (k - i))) % 256]

----------------------------------------------------------------------------
(* Pixel grids *)

\* arr.reshape(-1, 3): the rows of the (height, width, 3) array, one after the other
Flatten(rows) ==
    IF rows = <<>> THEN <<>>
    ELSE LET width == Len(rows[1])
         IN  [i \in 1..(Len(rows) * width) |->
                rows[((i - 1) \div width) + 1][((i - 1) % width) + 1]]

\* arr.reshape(height, width, 3)
Reshape(px, height, width) ==
    [r \in 1..height |-> [c \in 1..width |-> px[(r - 1) * width + c]]]

\* np.array(image.convert("RGB"), dtype=np.uint8).reshape(-1, 3): a fresh array
PixelsOf(image) == Flatten(image.rows)

\* Image.fromarray(pixels.reshape(height, width, 3), mode="RGB"): a new image
FromArray(px, height, width) ==
    [width |-> width, height |-> height, rows |-> Reshape(px, height, width)]

----------------------------------------------------------------------------
(* ChannelCodec, bluecrypt_core.py:110-121 *)

\* _bytes_to_224_channels on one byte: <<red_bits, green_bits, blue_bits>>
BytesTo224Channels(b) ==
    << AsUint8(BitAnd(Shr(b, 6), 3)),
       AsUint8(BitAnd(Shr(b, 4), 3)),
       AsUint8(BitAnd(b, 15)) >>

\* ChannelsToByte with the green mask 0x07: bit 2 of green read as well
ChannelsToByteWideGreen(p) ==
    AsUint8(BitOr(BitOr(Shl(BitAnd(p[1], 3), 6), Shl(BitAnd(p[2], 7), 4)),
                  BitAnd(p[3], 15)))

\* _channels_to_bytes on one pixel
ChannelsToByte(p) ==
    AsUint8(BitOr(BitOr(Shl(BitAnd(p[1], 3), 6), Shl(BitAnd(p[2], 3), 4)),
                  BitAnd(p[3], 15)))

\* _channels_to_bytes on an (n, 3) array
ChannelsToBytes(px) == [i \in 1..Len(px) |-> ChannelsToByte(px[i])]

\* EmbedPixel with the payload bits ORed in without clearing the low bits first
EmbedPixelNoClear(p, b) ==
    LET bits == BytesTo224Channels(b)
    IN  << BitOr(p[1], bits[1]), BitOr(p[2], bits[2]), BitOr(p[3], bits[3]) >>

\* EmbedPixel with the blue mask 0xF0 used for all three channels
EmbedPixelWideMask(p, b) ==
    LET bits == BytesTo224Channels(b)
    IN  << BitOr(BitAnd(p[1], 240), bits[1]),
           BitOr(BitAnd(p[2], 240), bits[2]),
           BitOr(BitAnd(p[3], 240), bits[3]) >>

\* EmbedPixel with the payload bits XORed into the pixel
EmbedPixelXor(p, b) ==
    LET bits == BytesTo224Channels(b)
    IN  << BitXor(p[1], bits[1]), BitXor(p[2], bits[2]), BitXor(p[3], bits[3]) >>

\* lines 145-147 on one pixel: clear the low 2/2/4 bits, OR the payload bits in
EmbedPixel(p, b) ==
    LET bits == BytesTo224Channels(b)
    IN  << BitOr(BitAnd(p[1], 252), bits[1]),
           BitOr(BitAnd(p[2], 252), bits[2]),
           BitOr(BitAnd(p[3], 240), bits[3]) >>

----------------------------------------------------------------------------
(* StegoEngine, bluecrypt_core.py:99-168 *)

\* max_embeddable_payload_bytes without the header reserved
CapacityNoHeader(image) ==
    Max(image.width * image.height, 0)

max_embeddable_payload_bytes(image) ==
    Max(image.width * image.height - HEADER_LEN, 0)

\* embed_encrypted_data writing into the pixel buffer of the image it is given
EmbedInPlace(h, img, encrypted_payload) ==
    LET cover_image == h[img]
        capacity == max_embeddable_payload_bytes(cover_image)
        pixels == PixelsOf(cover_image)
        payload == ToBytesBig(Len(encrypted_payload), HEADER_LEN) \o encrypted_payload
        count == Len(payload)
        written == [i \in 1..Len(pixels) |->
                      IF i <= count THEN EmbedPixel(pixels[i], payload[i])
                      ELSE pixels[i]]
        stego == FromArray(written, cover_image.height, cover_image.width)
    IN  IF encrypted_payload = <<>>
            THEN [heap |-> h, res |-> Fail("EmptyPayload", NoRef)]
        ELSE IF Len(encrypted_payload) > capacity
            THEN [heap |-> h, res |-> Fail("CapacityExceeded", NoRef)]
        ELSE [heap |-> Append([h EXCEPT ![img] = stego], stego), res |-> Ok(Len(h) + 1)]

\* embed_encrypted_data(cover_image, encrypted_payload) on the store h, where
\* cover_image is the reference img: [heap, res], the store after the call
\* and the outcome.  The pixels are written into an array built from a copy
\* of the cover (convert, then np.array), and the stego image is a new object.
embed_encrypted_data(h, img, encrypted_payload) ==
    LET cover_image == h[img]
        capacity == max_embeddable_payload_bytes(cover_image)
        pixels == PixelsOf(cover_image)
        payload == ToBytesBig(Len(encrypted_payload), HEADER_LEN) \o encrypted_payload
        count == Len(payload)
        written == [i \in 1..Len(pixels) |->
                      IF i <= count THEN EmbedPixel(pixels[i], payload[i])
                      ELSE pixels[i]]
        stego == FromArray(written, cover_image.height, cover_image.width)
    IN  IF encrypted_payload = <<>>
            THEN [heap |-> h, res |-> Fail("EmptyPayload", NoRef)]
        ELSE IF Len(encrypted_payload) > capacity
            THEN [heap |-> h, res |-> Fail("CapacityExceeded", NoRef)]
        ELSE IF count > Len(pixels)
            \* numpy cannot broadcast count values into a shorter slice
            THEN [heap |-> h, res |-> Fail("ValueError", NoRef)]
        ELSE [heap |-> Append(h, stego), res |-> Ok(Len(h) + 1)]

\* extract_encrypted_data rejecting a payload that fills the image exactly
ExtractOffByOne(h, img) ==
    LET pixels == PixelsOf(h[img])
        header_bytes == ChannelsToBytes(Slice(pixels, 0, HEADER_LEN))
        data_len == BigFromBytes(header_bytes)
        max_data_len == Len(pixels) - HEADER_LEN
        payload_pixels == Slice(pixels, HEADER_LEN, HEADER_LEN + BigSmall(data_len))
    IN  IF Len(pixels) <= HEADER_LEN
            THEN Fail("ImageTooSmall", NoBytes)
        ELSE IF BigIsZero(data_len) \/ BigGreater(data_len, max_data_len - 1)
            THEN Fail("InvalidPayload", NoBytes)
        ELSE Ok(ChannelsToBytes(payload_pixels))

\* extract_encrypted_data(stego_image)
extract_encrypted_data(h, img) ==
    LET pixels == PixelsOf(h[img])
        header_bytes == ChannelsToBytes(Slice(pixels, 0, HEADER_LEN))
        data_len == BigFromBytes(header_bytes)
        max_data_len == Len(pixels) - HEADER_LEN
        payload_pixels == Slice(pixels, HEADER_LEN, HEADER_LEN + BigSmall(data_len))
    IN  IF Len(pixels) <= HEADER_LEN
            THEN Fail("ImageTooSmall", NoBytes)
        ELSE IF BigIsZero(data_len) \/ BigGreater(data_len, max_data_len)
            THEN Fail("InvalidPayload", NoBytes)
        ELSE Ok(ChannelsToBytes(payload_pixels))

----------------------------------------------------------------------------
(* Python str operations used by SecretEnvelope.  A str is a sequence of   *)
(* code points.                                                            *)

\* "secret.bin" and "extracted_secret.bin"
SecretBin == <<115, 101, 99, 114, 101, 116, 46, 98, 105, 110>>
ExtractedSecretBin ==
    <<101, 120, 116, 114, 97, 99, 116, 101, 100, 95>> \o SecretBin

\* the code points str.isspace() holds of: what str.strip() removes
Whitespace ==
    (9..13) \cup (28..32) \cup {133, 160, 5760} \cup (8192..8202)
        \cup {8232, 8233, 8239, 8287, 12288}

\* s.strip()
RECURSIVE LStrip(_)
LStrip(s) ==
    IF s # <<>> /\ Head(s) \in Whitespace THEN LStrip(Tail(s)) ELSE s
RECURSIVE RStrip(_)
RStrip(s) ==
    IF s # <<>> /\ s[Len(s)] \in Whitespace
        THEN RStrip(SubSeq(s, 1, Len(s) - 1)) ELSE s
Strip(s) == RStrip(LStrip(s))

\* os.path.basename(p) of posixpath: i = p.rfind("/") + 1; return p[i:]
RECURSIVE RFind(_, _)
RFind(s, c) ==
    IF s = <<>> THEN -1
    ELSE IF s[Len(s)] = c THEN Len(s) - 1
    ELSE RFind(SubSeq(s, 1, Len(s) - 1), c)
Basename(p) == SubSeq(p, RFind(p, 47) + 2, Len(p))

\* x or default, for sequences
OrElse(x, default) == IF x = <<>> THEN default ELSE x

\* UTF-8 of one code point; a surrogate (U+D800..U+DFFF) has none
IsSurrogate(cp) == 55296 <= cp /\ cp <= 57343
Utf8Char(cp) ==
    IF cp < 128 THEN <<cp>>
    ELSE IF cp < 2048 THEN <<192 + cp \div 64, 128 + (cp % 64)>>
    ELSE IF cp < 65536
        THEN <<224 + cp \div 4096, 128 + ((cp \div 64) % 64), 128 + (cp % 64)>>
    ELSE <<240 + cp \div 262144, 128 + ((cp \div 4096) % 64),
           128 + ((cp \div 64) % 64), 128 + (cp % 64)>>

\* s.encode("utf-8"), for s that can be encoded
RECURSIVE Utf8Encode(_)
Utf8Encode(s) ==
    IF s = <<>> THEN <<>> ELSE Utf8Char(Head(s)) \o Utf8Encode(Tail(s))
\* s.encode("utf-8") raises UnicodeEncodeError
CannotEncode(s) == \E i \in 1..Len(s) : IsSurrogate(s[i])

\* b.decode("utf-8", errors="replace") treating every byte as one character
RECURSIVE Latin1Decode(_)
Latin1Decode(b) ==
    IF b = <<>> THEN <<>> ELSE <<Head(b)>> \o Latin1Decode(Tail(b))

\* b.decode("utf-8", errors="replace"): a well-formed sequence gives its code
\* point; a lead byte with the valid continuation bytes that follow it, short
\* of a whole sequence, gives one U+FFFD; so does any other byte.
RECURSIVE Utf8Decode(_)
Utf8Decode(b) ==
    IF b = <<>> THEN <<>>
    ELSE
        LET b1 == b[1]
            need == IF b1 < 128 THEN 0
                    ELSE IF 194 <= b1 /\ b1 <= 223 THEN 1
                    ELSE IF 224 <= b1 /\ b1 <= 239 THEN 2
                    ELSE IF 240 <= b1 /\ b1 <= 244 THEN 3
                    ELSE -1
            lo2 == IF b1 = 224 THEN 160 ELSE IF b1 = 240 THEN 144 ELSE 128
            hi2 == IF b1 = 237 THEN 159 ELSE IF b1 = 244 THEN 143 ELSE 191
            IsCont(i) ==
                /\ i <= Len(b)
                /\ IF i = 2 THEN lo2 <= b[i] /\ b[i] <= hi2
                   ELSE 128 <= b[i] /\ b[i] <= 191
            \* the continuation bytes that are valid, one after the other
            good == IF need < 1 \/ ~IsCont(2) THEN 0
                    ELSE IF need < 2 \/ ~IsCont(3) THEN 1
                    ELSE IF need < 3 \/ ~IsCont(4) THEN 2
                    ELSE 3
            cp == IF need = 0 THEN b1
                  ELSE IF need = 1 THEN (b1 - 192) * 64 + (b[2] - 128)
                  ELSE IF need = 2
                      THEN (b1 - 224) * 4096 + (b[2] - 128) * 64 + (b[3] - 128)
                  ELSE (b1 - 240) * 262144 + (b[2] - 128) * 4096
                          + (b[3] - 128) * 64 + (b[4] - 128)
        IN  IF need = -1 THEN <<65533>> \o Utf8Decode(Tail(b))
            ELSE IF good = need
                THEN <<cp>> \o Utf8Decode(SubSeq(b, need + 2, Len(b)))
            ELSE <<65533>> \o Utf8Decode(SubSeq(b, good + 2, Len(b)))

----------------------------------------------------------------------------
(* SecretEnvelope, bluecrypt_core.py:41-70 *)

package_secret_file(name, bytes) ==
    LET clean_name == OrElse(Strip(Basename(OrElse(name, <<>>))), SecretBin)
        name_bytes == Utf8Encode(clean_name)
    IN  IF bytes = <<>> THEN Fail("EmptySecret", NoBytes)
        ELSE IF CannotEncode(clean_name) THEN Fail("UnicodeEncodeError", NoBytes)
        ELSE IF Len(name_bytes) > 65535 THEN Fail("NameTooLong", NoBytes)
        ELSE Ok(MAGIC \o ToBytesBig(Len(name_bytes), 2) \o name_bytes \o bytes)

\* unpackage_secret_file taking an envelope with no byte after the name as corrupted
UnpackOffByOne(envelope) ==
    LET name_len_offset == Len(MAGIC)
        name_len == FromBytesBig(Slice(envelope, name_len_offset, name_len_offset + 2))
        data_offset == name_len_offset + 2 + name_len
        name_bytes == Slice(envelope, name_len_offset + 2, data_offset)
        name == OrElse(Strip(Utf8Decode(name_bytes)), ExtractedSecretBin)
        bytes == Slice(envelope, data_offset, Len(envelope))
    IN  IF Len(envelope) < Len(MAGIC) + 2 THEN Fail("TooShort", NoSecret)
        ELSE IF Slice(envelope, 0, Len(MAGIC)) # MAGIC THEN Fail("BadMagic", NoSecret)
        ELSE IF Len(envelope) <= data_offset THEN Fail("Corrupted", NoSecret)
        ELSE IF bytes = <<>> THEN Fail("EmptyData", NoSecret)
        ELSE Ok([filename |-> name, data |-> bytes])

unpackage_secret_file(envelope) ==
    LET name_len_offset == Len(MAGIC)
        name_len == FromBytesBig(Slice(envelope, name_len_offset, name_len_offset + 2))
        data_offset == name_len_offset + 2 + name_len
        name_bytes == Slice(envelope, name_len_offset + 2, data_offset)
        name == OrElse(Strip(Utf8Decode(name_bytes)), ExtractedSecretBin)
        bytes == Slice(envelope, data_offset, Len(envelope))
    IN  IF Len(envelope) < Len(MAGIC) + 2 THEN Fail("TooShort", NoSecret)
        ELSE IF Slice(envelope, 0, Len(MAGIC)) # MAGIC THEN Fail("BadMagic", NoSecret)
        ELSE IF Len(envelope) < data_offset THEN Fail("Corrupted", NoSecret)
        ELSE IF bytes = <<>> THEN Fail("EmptyData", NoSecret)
        ELSE Ok([filename |-> name, data |-> bytes])

----------------------------------------------------------------------------
(* KeyDerivation and AeadCipher, bluecrypt_core.py:32-96.  SHA-256 and      *)
(* AES-256-GCM are library code; they are modelled by small functions with *)
(* the properties the callers rely on: the digest is a function of the     *)
(* message with 32 bytes, GCM is a stream cipher (the ciphertext has the   *)
(* plaintext's length) with a 16-byte tag that is a function of key, nonce *)
(* and ciphertext.                                                         *)

\* the sum of s[lo..hi], summing the two halves
RECURSIVE SumRange(_, _, _)
SumRange(s, lo, hi) ==
    IF lo > hi THEN 0
    ELSE IF lo = hi THEN s[lo]
    ELSE LET mid == (lo + hi) \div 2
         IN  SumRange(s, lo, mid) + SumRange(s, mid + 1, hi)
SumSeq(s) == SumRange(s, 1, Len(s))

\* SHA256.new().update(message).digest()
Sha256(message) ==
    [i \in 1..32 |->
        (SumSeq([j \in 1..Len(message) |-> message[j] * (i + j)])
            + 31 * Len(message) + 7 * i) % 256]

derive_key(pw) ==
    IF pw = <<>> THEN Fail("EmptyPassword", NoBytes)
    ELSE Ok(Sha256(Utf8Encode(pw)))

\* byte i of the key stream of AES.new(k, AES.MODE_GCM, nonce=n)
KeyStream(k, n, i) ==
    (k[((i - 1) % Len(k)) + 1] + n[((i - 1) % Len(n)) + 1] + 17 * i) % 256

\* cipher.encrypt(text) and cipher.decrypt(text): the key stream XORed in
GcmCrypt(k, n, text) ==
    [i \in 1..Len(text) |-> BitXor(text[i], KeyStream(k, n, i))]

\* the tag cipher.digest() gives for the ciphertext ct
GcmTag(k, n, ct) ==
    [j \in 1..TAG_LEN |->
        (SumSeq([i \in 1..Len(ct) |-> ct[i] * (i + j)])
            + k[j] + k[j + TAG_LEN] + n[((j - 1) % Len(n)) + 1] + Len(ct)) % 256]

\* encrypt_payload returning nonce || ciphertext || tag
EncryptTagLast(text, k, n) ==
    LET ciphertext == GcmCrypt(k, n, text)
        tag == GcmTag(k, n, ciphertext)
    IN  Ok(n \o ciphertext \o tag)

\* encrypt_payload(text, k), n the nonce get_random_bytes(NONCE_LEN) returns
encrypt_payload(text, k, n) ==
    LET ciphertext == GcmCrypt(k, n, text)
        tag == GcmTag(k, n, ciphertext)
    IN  Ok(n \o tag \o ciphertext)

\* decrypt_payload accepting a blob of exactly nonce and tag
DecryptNoEmptyCheck(encrypted, k) ==
    LET min_size == NONCE_LEN + TAG_LEN
        n == Slice(encrypted, 0, NONCE_LEN)
        tag == Slice(encrypted, NONCE_LEN, NONCE_LEN + TAG_LEN)
        ciphertext == Slice(encrypted, NONCE_LEN + TAG_LEN, Len(encrypted))
    IN  IF Len(encrypted) < min_size THEN Fail("TooShort", NoBytes)
        ELSE IF GcmTag(k, n, ciphertext) # tag
            THEN Fail("AuthenticationFailed", NoBytes)
        ELSE Ok(GcmCrypt(k, n, ciphertext))

decrypt_payload(encrypted, k) ==
    LET min_size == NONCE_LEN + TAG_LEN
        n == Slice(encrypted, 0, NONCE_LEN)
        tag == Slice(encrypted, NONCE_LEN, NONCE_LEN + TAG_LEN)
        ciphertext == Slice(encrypted, NONCE_LEN + TAG_LEN, Len(encrypted))
    IN  IF Len(encrypted) <= min_size THEN Fail("TooShort", NoBytes)
        ELSE IF GcmTag(k, n, ciphertext) # tag
            THEN Fail("AuthenticationFailed", NoBytes)
        ELSE Ok(GcmCrypt(k, n, ciphertext))

----------------------------------------------------------------------------
(* QualityMetric, bluecrypt_core.py:171-180 *)

\* (arr_a - arr_b) ** 2 on one channel value, with the difference taken in uint8
SquaredDiffWrapped(x, y) == ((x - y) % 256) * ((x - y) % 256)

\* (arr_a - arr_b) ** 2 on one channel value of the float64 arrays
SquaredDiff(x, y) == (x - y) * (x - y)

\* np.array(image.convert("RGB"), dtype=np.float64): the channel values, one
\* after the other
Channels(px) ==
    [i \in 1..(3 * Len(px)) |-> px[((i - 1) \div 3) + 1][((i - 1) % 3) + 1]]

\* calculate_psnr(image_a, image_b) on the images a and b of the store h.
\* The value stands for 20 * log10(255 / sqrt(sse / n)): sse the sum of the
\* squared differences, n the number of channel values (mse = sse / n), and
\* inf for math.inf.  Equal (sse, n) are equal floats.
calculate_psnr(h, a, b) ==
    LET arr_a == Channels(PixelsOf(h[a]))
        arr_b == Channels(PixelsOf(h[b]))
        sse == SumSeq([i \in 1..Len(arr_a) |-> SquaredDiff(arr_a[i], arr_b[i])])
    IN  IF <<h[a].width, h[a].height>> # <<h[b].width, h[b].height>>
            THEN Fail("DimensionMismatch", NoPsnr)
        ELSE IF sse = 0
            THEN Ok([inf |-> TRUE, sse |-> 0, n |-> Len(arr_a)])
        ELSE Ok([inf |-> FALSE, sse |-> sse, n |-> Len(arr_a)])

----------------------------------------------------------------------------
(* Inputs *)

\* all byte strings over bytes of length 0..n
BytesUpTo(bytes, n) == UNION {[1..k -> bytes] : k \in 0..n}

\* the sizes (width, height) of the images of at most n pixels (at least one)
Shapes(n) == {s \in (1..n) \X (1..n) : s[1] * s[2] <= n}

\* cover pixels: white, and a pixel with mixed high and low bits
CoverPalette == {<<255, 255, 255>>, <<84, 168, 49>>}
\* payload bytes: all bits clear, and 10 11 0110
BlobBytes == {0, 182}
\* blobs up to one byte more than the largest cover holds
Blobs == BytesUpTo(BlobBytes, MaxPixels - HEADER_LEN + 1)

\* pixels decoding to the bytes 0, 1, 2 and 255
RawPalette == {<<252, 0, 240>>, <<84, 168, 49>>, <<136, 52, 194>>, <<255, 255, 255>>}

\* all strings over chars of length 0..n
StringsUpTo(chars, n) == UNION {[1..k -> chars] : k \in 0..n}

\* file name characters: "a", " ", "/", e acute (2 bytes of UTF-8), no-break
\* space (whitespace of 2 bytes), and the lone surrogate U+DCFF that
\* os.fsdecode gives for the undecodable byte 0xFF of a file name
NameChars == {97, 32, 47, 233, 160, 56575}
\* secret file bytes
DataBytes == {0, 66}

\* envelopes handed to unpackage_secret_file: a head (a prefix of MAGIC, or
\* MAGIC with its first or last byte changed), then any bytes of TailBytes
Heads ==
    {SubSeq(MAGIC, 1, k) : k \in 0..Len(MAGIC)} \cup {<<66, 67, 80, 50>>, <<98, 67, 80, 49>>}
\* 0, 1 and 2 (name lengths), space, and 0xFF (never valid in UTF-8)
TailBytes == {0, 1, 2, 32, 255}

\* passwords "hunter2" and "p"
Hunter2 == <<104, 117, 110, 116, 101, 114, 50>>
Passwords == {Hunter2, <<112>>}
Keys == {derive_key(pw).val : pw \in Passwords}
\* what get_random_bytes(NONCE_LEN) may return: two of the 2^96 nonces
Nonces == {[i \in 1..NONCE_LEN |-> 0], [i \in 1..NONCE_LEN |-> (37 * i) % 256]}
\* blobs handed to decrypt_payload: every length up to a whole encryption
\* of MaxPlainLen bytes, filled with 0 or with 1, 2, 3, ...
RawBlobs ==
    {[i \in 1..len |-> (fill * i) % 256] :
        len \in 0..(NONCE_LEN + TAG_LEN + MaxPlainLen), fill \in {0, 1}}

\* the hide tab's inputs: no password or one of Passwords; the names
\* "note.txt", "d/ e-acute " and ""; the files b"hello", b"\x00" and b"";
\* covers all white, or white and mixed pixels in turn
AppPasswords == {<<>>} \cup Passwords
NoteTxt == <<110, 111, 116, 101, 46, 116, 120, 116>>
Hello == <<104, 101, 108, 108, 111>>
AppNames == {NoteTxt, <<100, 47, 32, 233, 32>>, <<>>}
AppDatas == {Hello, <<0>>, <<>>}
AppSides == 7..MaxSide
AppCovers ==
    {FromArray([i \in 1..(w * h) |->
                   IF striped /\ i % 2 = 1 THEN <<84, 168, 49>> ELSE <<255, 255, 255>>],
               h, w) :
        w \in AppSides, h \in AppSides, striped \in BOOLEAN}

\* covers embedded into twice: all white, all mixed, or white and mixed in turn
ReCovers ==
    {FromArray([i \in 1..(s[1] * s[2]) |->
                   IF kind = 1 \/ (kind = 3 /\ i % 2 = 1) THEN <<84, 168, 49>>
                   ELSE <<255, 255, 255>>],
               s[2], s[1]) :
        s \in Shapes(MaxRePixels), kind \in 1..3}
\* blobs up to one byte more than the largest of them holds
ReBlobs == BytesUpTo(BlobBytes, MaxRePixels - HEADER_LEN + 1)

\* pixels decoding to the bytes 0, 1 and 255
TwinPalette == {<<252, 0, 240>>, <<84, 168, 49>>, <<255, 255, 255>>}
\* a pixel with its high 6/6/4 bits inverted, and with bit 3 of blue inverted
HighFlipped(p) == <<BitXor(p[1], 252), BitXor(p[2], 252), BitXor(p[3], 240)>>
LowFlipped(p) == <<p[1], p[2], BitXor(p[3], 8)>>
\* the grids paired with the grid of pixels px: the high bits inverted in
\* every pixel, or in every other pixel, or in every pixel with a low bit of
\* pixel 4 (the last header byte) or of the last pixel inverted too
Twins(px) ==
    {[i \in 1..Len(px) |-> HighFlipped(px[i])],
     [i \in 1..Len(px) |-> IF i % 2 = 1 THEN HighFlipped(px[i]) ELSE px[i]]}
    \cup {[i \in 1..Len(px) |->
              IF i = k THEN LowFlipped(HighFlipped(px[i])) ELSE HighFlipped(px[i])] :
           k \in {HEADER_LEN, Len(px)} \cap (1..Len(px))}

\* PSNR pixels: black, and a pixel 255, 16 and 1 away from it
PsnrPalette == {<<0, 0, 0>>, <<255, 16, 1>>}

----------------------------------------------------------------------------
(* The stego engine called on a cover image: one embed, one extract *)

\* no envelope call made
EnvIdle ==
    /\ filename = <<>>
    /\ data = NoBytes
    /\ packRes = Fail(NotCalled, NoBytes)
    /\ unpackArg = NoBytes
    /\ unpackRes = Fail(NotCalled, NoSecret)

\* no stego call made, no image loaded
StegoIdle ==
    /\ heap = <<>>
    /\ blob = NoBytes
    /\ embedRes = Fail(NotCalled, NoRef)
    /\ extractArg = NoRef
    /\ extractRes = Fail(NotCalled, NoBytes)

\* no cipher call made
CipherIdle ==
    /\ plaintext = NoBytes
    /\ key = NoBytes
    /\ nonce = NoBytes
    /\ encRes = Fail(NotCalled, NoBytes)
    /\ decArg = NoBytes
    /\ decKey = NoBytes
    /\ decRes = Fail(NotCalled, NoBytes)

\* no PSNR computed
PsnrIdle ==
    /\ psnrArgs = <<NoRef, NoRef>>
    /\ psnrRes = Fail(NotCalled, NoPsnr)
    /\ psnrPrevArgs = <<NoRef, NoRef>>
    /\ psnrPrevRes = Fail(NotCalled, NoPsnr)

\* no button pressed
AppIdle ==
    /\ password = <<>>
    /\ hideRes = Fail(NotCalled, NoRef)
    /\ extractPassword = <<>>
    /\ revealRes = Fail(NotCalled, NoSecret)

\* no second embed or extract call made
AgainIdle ==
    /\ embedArg2 = NoRef
    /\ blob2 = NoBytes
    /\ embedRes2 = Fail(NotCalled, NoRef)
    /\ extractArg2 = NoRef
    /\ extractRes2 = Fail(NotCalled, NoBytes)

Init ==
    /\ EnvIdle /\ CipherIdle /\ PsnrIdle /\ AppIdle /\ AgainIdle
    /\ \E s \in Shapes(MaxPixels) : \E px \in [1..(s[1] * s[2]) -> CoverPalette] :
          heap = <<FromArray(px, s[2], s[1])>>
    /\ blob = NoBytes
    /\ embedRes = Fail(NotCalled, NoRef)
    /\ extractArg = NoRef
    /\ extractRes = Fail(NotCalled, NoBytes)

\* stego = embed_encrypted_data(cover_image, b)
Embed(b) ==
    /\ embedRes.err = NotCalled
    /\ \E r \in {embed_encrypted_data(heap, 1, b)} :
          /\ heap' = r.heap
          /\ embedRes' = r.res
    /\ blob' = b
    /\ UNCHANGED <<extractArg, extractRes, envVars, cipherVars, psnrVars, appVars, againVars>>

\* extract_encrypted_data(image) on any image alive
Extract(img) ==
    /\ extractRes.err = NotCalled
    /\ extractArg' = img
    /\ extractRes' = extract_encrypted_data(heap, img)
    /\ UNCHANGED <<heap, blob, embedRes, envVars, cipherVars, psnrVars, appVars, againVars>>

Next ==
    \/ \E b \in Blobs : Embed(b)
    \/ \E img \in 1..Len(heap) : Extract(img)

Spec == Init /\ [][Next]_vars

(* extract_encrypted_data called on arbitrary images *)

InitExtract ==
    /\ EnvIdle /\ CipherIdle /\ PsnrIdle /\ AppIdle /\ AgainIdle
    /\ \E s \in Shapes(MaxRawPixels) : \E px \in [1..(s[1] * s[2]) -> RawPalette] :
          heap = <<FromArray(px, s[2], s[1])>>
    /\ blob = NoBytes
    /\ embedRes = Fail(NotCalled, NoRef)
    /\ extractArg = NoRef
    /\ extractRes = Fail(NotCalled, NoBytes)

NextExtract == \E img \in 1..Len(heap) : Extract(img)

SpecExtract == InitExtract /\ [][NextExtract]_vars

(* embed_encrypted_data called on a cover, then on the image it returned *)

InitReembed ==
    /\ EnvIdle /\ CipherIdle /\ PsnrIdle /\ AppIdle /\ AgainIdle
    /\ heap \in {<<g>> : g \in ReCovers}
    /\ blob = NoBytes
    /\ embedRes = Fail(NotCalled, NoRef)
    /\ extractArg = NoRef
    /\ extractRes = Fail(NotCalled, NoBytes)

\* embed_encrypted_data(stego, b), stego the image the first embed returned
Reembed(b) ==
    /\ embedRes.ok
    /\ embedRes2.err = NotCalled
    /\ \E r \in {embed_encrypted_data(heap, embedRes.val, b)} :
          /\ heap' = r.heap
          /\ embedRes2' = r.res
    /\ embedArg2' = embedRes.val
    /\ blob2' = b
    /\ UNCHANGED <<blob, embedRes, extractArg, extractRes, extractArg2, extractRes2>>
    /\ UNCHANGED <<envVars, cipherVars, psnrVars, appVars>>

NextReembed ==
    \/ \E b \in ReBlobs : Embed(b)
    \/ \E b \in ReBlobs : Reembed(b)
    \/ \E img \in 1..Len(heap) : Extract(img)

SpecReembed == InitReembed /\ [][NextReembed]_vars

(* extract_encrypted_data called on two images of the same size *)

InitTwin ==
    /\ EnvIdle /\ CipherIdle /\ PsnrIdle /\ AppIdle /\ AgainIdle
    /\ \E s \in Shapes(MaxTwinPixels) : \E px \in [1..(s[1] * s[2]) -> TwinPalette] :
       \E tw \in Twins(px) :
          heap = <<FromArray(px, s[2], s[1]), FromArray(tw, s[2], s[1])>>
    /\ blob = NoBytes
    /\ embedRes = Fail(NotCalled, NoRef)
    /\ extractArg = NoRef
    /\ extractRes = Fail(NotCalled, NoBytes)

\* a second extract_encrypted_data(image), on any image alive
ExtractSecond(img) ==
    /\ extractRes.err # NotCalled
    /\ extractRes2.err = NotCalled
    /\ extractArg2' = img
    /\ extractRes2' = extract_encrypted_data(heap, img)
    /\ UNCHANGED <<stegoVars, embedArg2, blob2, embedRes2>>
    /\ UNCHANGED <<envVars, cipherVars, psnrVars, appVars>>

NextTwin ==
    \/ \E img \in 1..Len(heap) : Extract(img)
    \/ \E img \in 1..Len(heap) : ExtractSecond(img)

SpecTwin == InitTwin /\ [][NextTwin]_vars

(* The envelope: a secret file packed, and the envelope unpacked *)

InitEnvelope ==
    /\ StegoIdle /\ CipherIdle /\ PsnrIdle /\ AppIdle /\ AgainIdle
    /\ filename \in StringsUpTo(NameChars, MaxNameLen)
    /\ data \in BytesUpTo(DataBytes, MaxDataLen)
    /\ packRes = Fail(NotCalled, NoBytes)
    /\ unpackArg = NoBytes
    /\ unpackRes = Fail(NotCalled, NoSecret)

\* secret_blob = package_secret_file(secret_name, secret_data)
Pack ==
    /\ packRes.err = NotCalled
    /\ packRes' = package_secret_file(filename, data)
    /\ UNCHANGED <<filename, data, unpackArg, unpackRes, stegoVars, cipherVars, psnrVars, appVars, againVars>>

\* unpackage_secret_file(secret_blob)
Unpack ==
    /\ packRes.ok
    /\ unpackRes.err = NotCalled
    /\ unpackArg' = packRes.val
    /\ unpackRes' = unpackage_secret_file(packRes.val)
    /\ UNCHANGED <<filename, data, packRes, stegoVars, cipherVars, psnrVars, appVars, againVars>>

NextEnvelope == Pack \/ Unpack

SpecEnvelope == InitEnvelope /\ [][NextEnvelope]_vars

(* unpackage_secret_file called on arbitrary bytes *)

InitUnpack ==
    /\ StegoIdle /\ CipherIdle /\ PsnrIdle /\ AppIdle /\ AgainIdle
    /\ filename = <<>>
    /\ data = NoBytes
    /\ packRes = Fail(NotCalled, NoBytes)
    /\ \E h \in Heads : \E t \in BytesUpTo(TailBytes, MaxTailLen) : unpackArg = h \o t
    /\ unpackRes = Fail(NotCalled, NoSecret)

\* unpackage_secret_file(plaintext_blob)
UnpackRaw ==
    /\ unpackRes.err = NotCalled
    /\ unpackRes' = unpackage_secret_file(unpackArg)
    /\ UNCHANGED <<filename, data, packRes, unpackArg, stegoVars, cipherVars, psnrVars, appVars, againVars>>

NextUnpack == UnpackRaw

SpecUnpack == InitUnpack /\ [][NextUnpack]_vars

(* The cipher: a plaintext encrypted and the blob decrypted, and           *)
(* decrypt_payload called on arbitrary bytes                               *)

InitCipher ==
    /\ StegoIdle /\ EnvIdle /\ PsnrIdle /\ AppIdle /\ AgainIdle
    /\ plaintext \in BytesUpTo(DataBytes, MaxPlainLen)
    /\ key \in Keys
    /\ nonce = NoBytes
    /\ encRes = Fail(NotCalled, NoBytes)
    /\ decArg = NoBytes
    /\ decKey = NoBytes
    /\ decRes = Fail(NotCalled, NoBytes)

\* encrypted_blob = encrypt_payload(plaintext, key), drawing the nonce n
Encrypt(n) ==
    /\ encRes.err = NotCalled
    /\ nonce' = n
    /\ encRes' = encrypt_payload(plaintext, key, n)
    /\ UNCHANGED <<plaintext, key, decArg, decKey, decRes>>
    /\ UNCHANGED <<stegoVars, envVars, psnrVars, appVars, againVars>>

\* decrypt_payload(encrypted_blob, k)
Decrypt(k) ==
    /\ encRes.ok
    /\ decRes.err = NotCalled
    /\ decArg' = encRes.val
    /\ decKey' = k
    /\ decRes' = decrypt_payload(encRes.val, k)
    /\ UNCHANGED <<plaintext, key, nonce, encRes>>
    /\ UNCHANGED <<stegoVars, envVars, psnrVars, appVars, againVars>>

\* decrypt_payload(b, k) on bytes that are no encryption
DecryptRaw(b, k) ==
    /\ decRes.err = NotCalled
    /\ decArg' = b
    /\ decKey' = k
    /\ decRes' = decrypt_payload(b, k)
    /\ UNCHANGED <<plaintext, key, nonce, encRes>>
    /\ UNCHANGED <<stegoVars, envVars, psnrVars, appVars, againVars>>

NextCipher ==
    \/ \E n \in Nonces : Encrypt(n)
    \/ \E k \in Keys : Decrypt(k)
    \/ \E b \in RawBlobs, k \in Keys : DecryptRaw(b, k)

SpecCipher == InitCipher /\ [][NextCipher]_vars

(* The quality metric on two images *)

InitPsnr ==
    /\ EnvIdle /\ CipherIdle /\ PsnrIdle /\ AppIdle /\ AgainIdle
    /\ \E s \in Shapes(MaxPsnrPixels), t \in Shapes(MaxPsnrPixels) :
         \E px \in [1..(s[1] * s[2]) -> PsnrPalette], qx \in [1..(t[1] * t[2]) -> PsnrPalette] :
            heap = <<FromArray(px, s[2], s[1]), FromArray(qx, t[2], t[1])>>
    /\ blob = NoBytes
    /\ embedRes = Fail(NotCalled, NoRef)
    /\ extractArg = NoRef
    /\ extractRes = Fail(NotCalled, NoBytes)

\* calculate_psnr(image_a, image_b)
Psnr(a, b) ==
    /\ psnrPrevArgs' = psnrArgs
    /\ psnrPrevRes' = psnrRes
    /\ psnrArgs' = <<a, b>>
    /\ psnrRes' = calculate_psnr(heap, a, b)
    /\ UNCHANGED <<stegoVars, envVars, cipherVars, appVars, againVars>>

NextPsnr == \E a \in 1..Len(heap), b \in 1..Len(heap) : Psnr(a, b)

SpecPsnr == InitPsnr /\ [][NextPsnr]_vars

(* The application: the hide tab's button, then the extract tab's button  *)
(* on the cover or on the stego image (saved as PNG and loaded again,      *)
(* which keeps every channel value)                                        *)

InitApp ==
    /\ EnvIdle /\ CipherIdle /\ PsnrIdle /\ AgainIdle
    /\ heap \in {<<g>> : g \in AppCovers}
    /\ blob = NoBytes
    /\ embedRes = Fail(NotCalled, NoRef)
    /\ extractArg = NoRef
    /\ extractRes = Fail(NotCalled, NoBytes)
    /\ password \in AppPasswords
    /\ hideRes = Fail(NotCalled, NoRef)
    /\ extractPassword = <<>>
    /\ revealRes = Fail(NotCalled, NoSecret)

\* "Encrypt & Generate Stego PNG" with the secret file (name, bytes),
\* app.py:265-306: the calls of lines 272-281, each made when the one before
\* it returned; n is the nonce encrypt_payload draws.  A call not reached
\* stays NotCalled.
HideAction(name, bytes, n) ==
    /\ hideRes.err = NotCalled
    /\ filename' = name
    /\ data' = bytes
    /\ IF password = <<>>
           THEN /\ hideRes' = Fail("Required", NoRef)
                /\ UNCHANGED <<heap, blob, embedRes, packRes, plaintext, key, nonce,
                               encRes, psnrArgs, psnrRes>>
       ELSE \E k \in {derive_key(password)} :
            \E packed \in {package_secret_file(name, bytes)} :
            \E enc \in {IF packed.ok THEN encrypt_payload(packed.val, k.val, n)
                        ELSE Fail(NotCalled, NoBytes)} :
            \E emb \in {IF enc.ok THEN embed_encrypted_data(heap, 1, enc.val)
                        ELSE [heap |-> heap, res |-> Fail(NotCalled, NoRef)]} :
            \E ps \in {IF emb.res.ok THEN calculate_psnr(emb.heap, 1, emb.res.val)
                       ELSE Fail(NotCalled, NoPsnr)} :
                /\ key' = k.val
                /\ packRes' = packed
                /\ plaintext' = packed.val
                /\ nonce' = IF packed.ok THEN n ELSE nonce
                /\ encRes' = enc
                /\ blob' = enc.val
                /\ embedRes' = emb.res
                /\ heap' = emb.heap
                /\ psnrArgs' = IF emb.res.ok THEN <<1, emb.res.val>> ELSE psnrArgs
                /\ psnrRes' = ps
                /\ hideRes' =
                      IF ~packed.ok THEN Fail(packed.err, NoRef)
                      ELSE IF ~emb.res.ok THEN Fail(emb.res.err, NoRef)
                      ELSE IF ~ps.ok THEN Fail(ps.err, NoRef)
                      ELSE Ok(emb.res.val)
    /\ UNCHANGED <<extractArg, extractRes, unpackArg, unpackRes, decArg, decKey, decRes,
                   psnrPrevArgs, psnrPrevRes, password, extractPassword, revealRes,
                   againVars>>

\* "Extract Secret" on the image img with the password pw, app.py:319-341:
\* the calls of lines 326-329
ExtractAction(img, pw) ==
    /\ revealRes.err = NotCalled
    /\ extractPassword' = pw
    /\ IF pw = <<>>
           THEN /\ revealRes' = Fail("Required", NoSecret)
                /\ UNCHANGED <<extractArg, extractRes, decArg, decKey, decRes,
                               unpackArg, unpackRes>>
       ELSE \E k \in {derive_key(pw)} :
            \E ext \in {extract_encrypted_data(heap, img)} :
            \E dec \in {IF ext.ok THEN decrypt_payload(ext.val, k.val)
                        ELSE Fail(NotCalled, NoBytes)} :
            \E sec \in {IF dec.ok THEN unpackage_secret_file(dec.val)
                        ELSE Fail(NotCalled, NoSecret)} :
                /\ extractArg' = img
                /\ extractRes' = ext
                /\ decArg' = ext.val
                /\ decKey' = k.val
                /\ decRes' = dec
                /\ unpackArg' = dec.val
                /\ unpackRes' = sec
                /\ revealRes' =
                      IF ~ext.ok THEN Fail(ext.err, NoSecret)
                      ELSE IF ~dec.ok THEN Fail(dec.err, NoSecret)
                      ELSE sec
    /\ UNCHANGED <<heap, blob, embedRes, filename, data, packRes, plaintext, key, nonce,
                   encRes, psnrVars, password, hideRes, againVars>>

NextApp ==
    \/ \E name \in AppNames, bytes \in AppDatas, n \in Nonces : HideAction(name, bytes, n)
    \/ \E img \in 1..Len(heap), pw \in AppPasswords : ExtractAction(img, pw)

SpecApp == InitApp /\ [][NextApp]_vars

----------------------------------------------------------------------------
(* Properties of the stego engine *)

\* the cover's pixels and the pixels of image img, in row-major order
CoverPx == Flatten(heap[1].rows)
PxOf(img) == Flatten(heap[img].rows)
CoverPixels == heap[1].width * heap[1].height
EmbedCalled == embedRes.err # NotCalled
ExtractCalled == extractRes.err # NotCalled

\* the byte a pixel carries, by arithmetic: low 2 bits of red, low 2 bits of
\* green, low 4 bits of blue
Carried(p) == (p[1] % 4) * 64 + (p[2] % 4) * 16 + (p[3] % 16)

\* C1: extracting from the image a successful embed of blob returned gives
\* exactly blob, same length and same bytes in the same order.
StegoRoundTrip ==
    (embedRes.ok /\ ExtractCalled /\ extractArg = embedRes.val)
        => (extractRes.ok /\ extractRes.val = blob)

\* C1 witness: a blob of 2 or more bytes filling its cover was embedded and extracted
StegoRoundTripWitness ==
    /\ embedRes.ok /\ ExtractCalled /\ extractArg = embedRes.val
    /\ Len(blob) >= 2 /\ Len(blob) = CoverPixels - HEADER_LEN
    /\ \E i \in 1..Len(blob) : blob[i] = 0
    /\ \E i \in 1..Len(blob) : blob[i] # 0

\* C2 as stated: for every blob, embed succeeds iff len(blob) <= width*height - 4.
CapacityBoundaryEveryBlob ==
    EmbedCalled => (embedRes.ok <=> Len(blob) <= CoverPixels - HEADER_LEN)

\* C2 amended: for every non-empty blob, embed succeeds iff
\* len(blob) <= width*height - 4 and otherwise fails with CapacityExceeded,
\* returning no image (so never a truncated payload); the empty blob fails
\* with EmptyPayload on every grid.
CapacityBoundary ==
    EmbedCalled =>
        IF blob = <<>>
            THEN embedRes.err = "EmptyPayload"
        ELSE IF Len(blob) <= CoverPixels - HEADER_LEN
            THEN embedRes.ok
        ELSE /\ embedRes.err = "CapacityExceeded"
             /\ embedRes.val = NoRef
             /\ Len(heap) = 1

\* C2 witness: a non-empty blob of exactly width*height - 4 bytes was embedded
CapacityBoundaryWitness ==
    /\ embedRes.ok
    /\ blob # <<>>
    /\ Len(blob) = CoverPixels - HEADER_LEN

\* C5: no step changes the caller's cover image; a successful embed returns
\* another image object of the same width and height, a failed one returns no
\* image and leaves no new image behind.
EmbedLeavesCover ==
    [][ /\ heap'[1] = heap[1]
        /\ embedRes'.ok =>
              /\ embedRes'.val # 1
              /\ embedRes'.val \in 1..Len(heap')
              /\ heap'[embedRes'.val].width = heap[1].width
              /\ heap'[embedRes'.val].height = heap[1].height
              /\ Len(heap'[embedRes'.val].rows) = heap[1].height
              /\ \A r \in 1..heap[1].height :
                    Len(heap'[embedRes'.val].rows[r]) = heap[1].width
        /\ (embedRes'.err # NotCalled /\ ~embedRes'.ok) =>
              /\ embedRes'.val = NoRef
              /\ Len(heap') = 1 ]_vars

\* C5 witness: an embed succeeded and its result differs from the cover
EmbedLeavesCoverWitness ==
    /\ embedRes.ok
    /\ heap[embedRes.val] # heap[1]
    /\ Len(blob) >= 2

\* the stream embed hides: the 4-byte big-endian length, then the blob
\* (lengths below 65536)
Stream == <<0, 0, Len(blob) \div 256, Len(blob) % 256>> \o blob

\* C6: after a successful embed, with n = len(blob) + 4, the pixels at
\* index >= n equal the cover's; in the first n pixels the high 6 bits of red
\* and green and the high 4 bits of blue equal the cover's, and the low 2/2/4
\* bits of pixel i are byte i of the stream.
EmbedFrame ==
    embedRes.ok =>
        LET n == Len(blob) + HEADER_LEN
            s == PxOf(embedRes.val)
        IN  /\ Len(s) = Len(CoverPx)
            /\ \A i \in 1..Len(s) :
                  IF i > n THEN s[i] = CoverPx[i]
                  ELSE /\ s[i][1] \div 4 = CoverPx[i][1] \div 4
                       /\ s[i][2] \div 4 = CoverPx[i][2] \div 4
                       /\ s[i][3] \div 16 = CoverPx[i][3] \div 16
                       /\ s[i][1] % 4 = Stream[i] \div 64
                       /\ s[i][2] % 4 = (Stream[i] \div 16) % 4
                       /\ s[i][3] % 16 = Stream[i] % 16

\* C6 witness: an embed that left pixels beyond the payload and changed
\* low bits of a pixel with high bits set
EmbedFrameWitness ==
    /\ embedRes.ok
    /\ Len(blob) + HEADER_LEN < CoverPixels
    /\ \E i \in 1..(Len(blob) + HEADER_LEN) :
          /\ CoverPx[i] = <<255, 255, 255>>
          /\ PxOf(embedRes.val)[i] = <<252, 252, 240>>

\* the length the first four pixels carry, as two 16-bit halves
HeaderHigh(px) == Carried(px[1]) * 256 + Carried(px[2])
HeaderLow(px) == Carried(px[3]) * 256 + Carried(px[4])

\* C7: extract fails with ImageTooSmall on an image of <= 4 pixels; otherwise
\* with InvalidPayload when the length L carried by the first 4 pixels is 0 or
\* exceeds pixels - 4; otherwise it returns L bytes, byte j carried by pixel
\* 4 + j, the last of them within the image.
ExtractValidation ==
    ExtractCalled =>
        LET px == PxOf(extractArg)
            n == Len(px)
        IN  IF n <= HEADER_LEN
                THEN extractRes.err = "ImageTooSmall"
            ELSE IF \/ (HeaderHigh(px) = 0 /\ HeaderLow(px) = 0)
                    \/ HeaderHigh(px) > 0
                    \/ HeaderLow(px) > n - HEADER_LEN
                THEN extractRes.err = "InvalidPayload"
            ELSE /\ extractRes.ok
                 /\ Len(extractRes.val) = HeaderLow(px)
                 /\ HEADER_LEN + HeaderLow(px) <= n
                 /\ \A j \in 1..HeaderLow(px) :
                       extractRes.val[j] = Carried(px[HEADER_LEN + j])

\* C7 witness: an image never embedded into, whose header carries 2, gave 2 bytes
ExtractValidationWitness ==
    /\ extractRes.ok
    /\ ~EmbedCalled
    /\ Len(extractRes.val) = 2
    /\ Len(PxOf(extractArg)) = 6

\* C11: when a second embed is made on the image a first embed returned and
\* both succeed (so both blobs are non-empty and fit), extracting from the
\* second image gives the second blob, whatever the lengths of the two; and
\* when the two blobs are equal the second image equals the first, pixel for
\* pixel.
ReembedLastWins ==
    (embedRes.ok /\ embedRes2.ok /\ embedArg2 = embedRes.val) =>
        /\ (ExtractCalled /\ extractArg = embedRes2.val) =>
              (extractRes.ok /\ extractRes.val = blob2)
        /\ blob2 = blob =>
              /\ heap[embedRes2.val].width = heap[embedRes.val].width
              /\ heap[embedRes2.val].height = heap[embedRes.val].height
              /\ PxOf(embedRes2.val) = PxOf(embedRes.val)

\* C11 witness: a shorter blob embedded over a longer one of other bytes, and
\* extracted from the second image
ReembedLastWinsWitness ==
    /\ embedRes.ok /\ embedRes2.ok /\ embedArg2 = embedRes.val
    /\ ExtractCalled /\ extractArg = embedRes2.val
    /\ Len(blob) = 3 /\ Len(blob2) = 1
    /\ blob[1] # blob2[1]
    /\ heap[embedRes2.val] # heap[embedRes.val]

\* the low 2 bits of red, low 2 bits of green and low 4 bits of blue of a pixel
LowBits(p) == <<p[1] % 4, p[2] % 4, p[3] % 16>>
\* the images a and b have the same width and height and the same low bits
\* in every pixel
SameLowBits(a, b) ==
    /\ heap[a].width = heap[b].width
    /\ heap[a].height = heap[b].height
    /\ \A i \in 1..Len(PxOf(a)) : LowBits(PxOf(a)[i]) = LowBits(PxOf(b)[i])

\* C12: two extract calls on images of the same dimensions that agree on the
\* low 2/2/4 bits of every pixel have the same outcome, the same bytes or the
\* same error, whatever the high bits of the two images are.
ExtractLowBitsOnly ==
    (ExtractCalled /\ extractRes2.err # NotCalled /\ SameLowBits(extractArg, extractArg2)) =>
        extractRes2 = extractRes

\* C12 witness: two images that differ in the high bits of every pixel and
\* agree on the low bits both gave the same byte
ExtractLowBitsOnlyWitness ==
    /\ ExtractCalled /\ extractRes2.err # NotCalled
    /\ extractArg # extractArg2
    /\ SameLowBits(extractArg, extractArg2)
    /\ \A i \in 1..Len(PxOf(extractArg)) :
          PxOf(extractArg)[i] = HighFlipped(PxOf(extractArg2)[i])
    /\ extractRes.ok /\ extractRes2.ok
    /\ Len(extractRes.val) = 1

----------------------------------------------------------------------------
(* Properties of the envelope *)

PackCalled == packRes.err # NotCalled
UnpackCalled == unpackRes.err # NotCalled

\* the part of f after its last "/", and s without the whitespace at its
\* ends, by positions
AfterLastSlash(f) ==
    LET at == {i \in 1..Len(f) : f[i] = 47}
    IN  IF at = {} THEN f
        ELSE SubSeq(f, (CHOOSE i \in at : \A j \in at : j <= i) + 1, Len(f))
Trimmed(s) ==
    LET ink == {i \in 1..Len(s) : s[i] \notin Whitespace}
    IN  IF ink = {} THEN <<>>
        ELSE SubSeq(s, CHOOSE i \in ink : \A j \in ink : i <= j,
                       CHOOSE i \in ink : \A j \in ink : j <= i)

\* C4 as stated: unpack of the envelope pack made of f and non-empty d gives
\* (basename(f), d), the name "secret.bin" when basename(f) is empty.
EnvelopeRoundTripBasename ==
    (UnpackCalled /\ unpackArg = packRes.val) =>
          /\ unpackRes.ok
          /\ unpackRes.val.data = data
          /\ unpackRes.val.filename =
                (IF AfterLastSlash(filename) = <<>> THEN SecretBin
                 ELSE AfterLastSlash(filename))

\* the name package_secret_file stores: basename(f) without the whitespace
\* at its ends, "secret.bin" when nothing is left
StoredName(f) ==
    IF Trimmed(AfterLastSlash(f)) = <<>> THEN SecretBin
    ELSE Trimmed(AfterLastSlash(f))

\* C4 amended: for every filename whose stored name has no lone surrogate,
\* and every non-empty data, pack succeeds and unpack of the envelope gives
\* (stored name, d): the name is basename(f) stripped of leading and trailing
\* whitespace, "secret.bin" when that is empty.
EnvelopeRoundTrip ==
    /\ (PackCalled /\ data # <<>>
            /\ \A i \in 1..Len(StoredName(filename)) :
                  ~IsSurrogate(StoredName(filename)[i]))
          => packRes.ok
    /\ (UnpackCalled /\ unpackArg = packRes.val) =>
          /\ unpackRes.ok
          /\ unpackRes.val.data = data
          /\ unpackRes.val.filename = StoredName(filename)

\* C4 witness: a name with a directory, whitespace at an end and a character
\* of two UTF-8 bytes went through pack and unpack
EnvelopeRoundTripWitness ==
    /\ UnpackCalled /\ unpackRes.ok
    /\ \E i \in 1..Len(filename) : filename[i] = 47
    /\ AfterLastSlash(filename) # Trimmed(AfterLastSlash(filename))
    /\ \E i \in 1..Len(unpackRes.val.filename) : unpackRes.val.filename[i] = 233

\* the name length an envelope of 6 or more bytes declares
DeclaredNameLen == unpackArg[5] * 256 + unpackArg[6]

\* C8: unpack fails with TooShort below 6 bytes; otherwise BadMagic unless
\* the first 4 bytes are "BCP1"; otherwise Corrupted when 6 + name_len exceeds
\* the length; otherwise EmptyData when nothing follows the name; otherwise
\* it succeeds, the data the bytes after the name (non-empty), the filename
\* non-empty, and "extracted_secret.bin" when the name bytes are all ASCII
\* whitespace or absent.
UnpackOutcomes ==
    UnpackCalled =>
        IF Len(unpackArg) < 6 THEN unpackRes.err = "TooShort"
        ELSE IF <<unpackArg[1], unpackArg[2], unpackArg[3], unpackArg[4]>> # <<66, 67, 80, 49>>
            THEN unpackRes.err = "BadMagic"
        ELSE IF 6 + DeclaredNameLen > Len(unpackArg) THEN unpackRes.err = "Corrupted"
        ELSE IF 6 + DeclaredNameLen = Len(unpackArg) THEN unpackRes.err = "EmptyData"
        ELSE /\ unpackRes.ok
             /\ unpackRes.val.filename # <<>>
             /\ unpackRes.val.data # <<>>
             /\ unpackRes.val.data =
                   SubSeq(unpackArg, 7 + DeclaredNameLen, Len(unpackArg))
             /\ (\A i \in 7..(6 + DeclaredNameLen) : unpackArg[i] \in (9..13) \cup (28..32))
                   => unpackRes.val.filename = ExtractedSecretBin

\* C8 witness: an envelope with a one-byte blank name and data was unpacked
\* under the default name
UnpackOutcomesWitness ==
    /\ unpackRes.ok
    /\ ~PackCalled
    /\ DeclaredNameLen = 1
    /\ unpackArg[7] = 32
    /\ unpackRes.val.filename = ExtractedSecretBin
    /\ Len(unpackRes.val.data) >= 2

----------------------------------------------------------------------------
(* Properties of the cipher *)

EncryptCalled == encRes.err # NotCalled
DecryptCalled == decRes.err # NotCalled

\* C9: encrypt returns nonce || tag || ciphertext of len(plaintext) + 28
\* bytes, the nonce first; decrypt fails with TooShort on every blob of <= 28
\* bytes, whatever its key and contents, and on no longer one; so the
\* encryption of a non-empty plaintext is never TooShort and that of the
\* empty plaintext is.
BlobLengthContract ==
    /\ EncryptCalled =>
          /\ encRes.ok
          /\ Len(encRes.val) = Len(plaintext) + 28
          /\ SubSeq(encRes.val, 1, 12) = nonce
    /\ DecryptCalled =>
          (decRes.err = "TooShort" <=> Len(decArg) <= 28)
    /\ (DecryptCalled /\ EncryptCalled /\ decArg = encRes.val) =>
          (decRes.err = "TooShort" <=> plaintext = <<>>)

\* C9 witness: the encryption of the empty plaintext, 28 bytes with a tag
\* that verifies, was rejected as too short under its own key
BlobLengthContractWitness ==
    /\ EncryptCalled /\ plaintext = <<>>
    /\ decArg = encRes.val /\ decKey = key
    /\ Len(decArg) = 28
    /\ decRes.err = "TooShort"

\* decrypt(encrypt(x, k), k) = x for every non-empty x
CipherRoundTrip ==
    (DecryptCalled /\ EncryptCalled /\ decArg = encRes.val /\ decKey = key
        /\ plaintext # <<>>) => (decRes.ok /\ decRes.val = plaintext)

----------------------------------------------------------------------------
(* Properties of the quality metric *)

PsnrCalled == psnrRes.err # NotCalled

\* the sum over all pixels and channels of the squared signed difference
SignedSse(a, b) ==
    LET pa == Flatten(a.rows)
        pb == Flatten(b.rows)
    IN  SumSeq([i \in 1..Len(pa) |->
                  (pa[i][1] - pb[i][1]) * (pa[i][1] - pb[i][1])
                + (pa[i][2] - pb[i][2]) * (pa[i][2] - pb[i][2])
                + (pa[i][3] - pb[i][3]) * (pa[i][3] - pb[i][3])])

\* C10: calculate_psnr fails with DimensionMismatch on images of different
\* (width, height); on images of equal size the squared error is the sum of
\* the squared signed differences, the result is +infinity when it is 0 (so
\* for an image and itself), and calculate_psnr(a, b) = calculate_psnr(b, a).
PsnrIdentitySymmetry ==
    /\ PsnrCalled =>
          LET a == heap[psnrArgs[1]]
              b == heap[psnrArgs[2]]
          IN  IF a.width # b.width \/ a.height # b.height
                  THEN psnrRes.err = "DimensionMismatch"
              ELSE /\ psnrRes.ok
                   /\ psnrRes.val.sse = SignedSse(a, b)
                   /\ psnrRes.val.n = 3 * a.width * a.height
                   /\ psnrRes.val.inf <=> (a = b)
    /\ (PsnrCalled /\ psnrPrevRes.err # NotCalled
            /\ psnrPrevArgs = <<psnrArgs[2], psnrArgs[1]>>)
          => psnrPrevRes = psnrRes

\* C10 witness: psnr(a, b) then psnr(b, a) on two different images of equal
\* size, one brighter in one pixel and darker in another
PsnrIdentitySymmetryWitness ==
    /\ PsnrCalled /\ psnrRes.ok /\ psnrPrevRes.ok
    /\ psnrArgs = <<2, 1>> /\ psnrPrevArgs = <<1, 2>>
    /\ ~psnrRes.val.inf
    /\ \E i \in 1..Len(PxOf(1)) : PxOf(1)[i][1] > PxOf(2)[i][1]
    /\ \E i \in 1..Len(PxOf(1)) : PxOf(1)[i][1] < PxOf(2)[i][1]

----------------------------------------------------------------------------
(* Properties of the application *)

HideCalled == hideRes.err # NotCalled
RevealCalled == revealRes.err # NotCalled

\* C3: for every non-empty password, filename, non-empty data and cover whose
\* capacity is at least len(pack(f, d)) + 28, hide succeeds; extract on the
\* image it made, with the same password, yields the stored filename and
\* exactly the data, the decrypted plaintext being the envelope that was
\* encrypted.
PipelineRoundTrip ==
    /\ (HideCalled /\ password # <<>> /\ data # <<>>
            /\ CoverPixels - HEADER_LEN >=
                  6 + Len(Utf8Encode(StoredName(filename))) + Len(data) + 28)
          => hideRes.ok
    /\ (RevealCalled /\ hideRes.ok /\ extractArg = hideRes.val
            /\ extractPassword = password)
          => /\ revealRes.ok
             /\ revealRes.val = [filename |-> StoredName(filename), data |-> data]
             /\ decRes.ok /\ decRes.val = packRes.val
             /\ Len(encRes.val) = Len(packRes.val) + 28

\* C3 witness: "hunter2", "note.txt", b"hello" hidden in the white 10 x 10
\* image and extracted as ("note.txt", b"hello")
PipelineRoundTripWitness ==
    /\ password = Hunter2 /\ extractPassword = Hunter2
    /\ filename = NoteTxt /\ data = Hello
    /\ heap[1].width = 10 /\ heap[1].height = 10
    /\ \A i \in 1..100 : CoverPx[i] = <<255, 255, 255>>
    /\ hideRes.ok /\ extractArg = hideRes.val
    /\ revealRes.ok
    /\ revealRes.val = [filename |-> NoteTxt, data |-> Hello]

====
